---- MODULE Spec2Model ----
(***************************************************************************)
(* The video grid reducer of the meeting application                       *)
(* (src/apps/meeting/src/providers/VideoGridProvider/state.tsx): the tile  *)
(* selection, the downlink preferences handed to priorityBasedPolicy, and  *)
(* the ten reducer actions.                                                *)
(*                                                                         *)
(* Object identity.  The reducer destructures `state` and writes through   *)
(* the nested objects (gridState.mode = ..., attendeeStates[id] = ...,     *)
(* videoSourceState.cameraSources = ...); `{...state, x}` copies the top   *)
(* level only.  No action ever allocates a new gridState, attendeeStates   *)
(* or videoSourceState object, and the state the reducer starts from is    *)
(* the exported constant initialState.  Hence there is exactly one         *)
(* gridState object, one attendeeStates object and one videoSourceState    *)
(* object on the heap, referenced both by the current state and by the     *)
(* constant initialState.  The three variables below are those objects.    *)
(***************************************************************************)
EXTENDS Integers, Sequences, FiniteSets, TLC

VARIABLES gridState, attendeeStates, videoSourceState, priorityBasedPolicy, pushed,
          thrown, twin

\* The messages of the chat application's MessagingProvider
\* (src/apps/chat/src/providers/ChatMessagesProvider/index.jsx), a component
\* of its own that shares nothing with the video grid.
VARIABLES messages, messagesRef, unreadChannels, unreadChannelsListRef,
          meetingInfo, awaited, effectPending, received

gridVars == <<gridState, attendeeStates, videoSourceState, priorityBasedPolicy, pushed,
              thrown, twin>>

chatVars == <<messages, messagesRef, unreadChannels, unreadChannelsListRef,
              meetingInfo, awaited, effectPending, received>>

vars == <<gridVars, chatVars>>

(***************************************************************************)
(* Bounds of the model.                                                    *)
(***************************************************************************)
\* camera attendees a, b, c, ... that can take part in the meeting
MaxAttendees == 10
\* longest enumerated active-speaker list
MaxSpeakers == 3
\* MessageIds of the chat events
MaxMessages == 2

Names == <<"a", "b", "c", "d", "e", "f", "g", "h", "i", "j", "k", "l", "m">>

\* An attendee id is modelled by its '#'-separated components:
\* "a" is <<"a">>, "a#content" is <<"a", "content">>.
CameraId(i) == <<Names[i]>>
ContentId(i) == <<Names[i], "content">>

CameraIds == {CameraId(i) : i \in 1..MaxAttendees}

null == <<>>


MODALITY_CONTENT == "content"

GalleryView == "GalleryView"
FeaturedView == "FeaturedView"
VideoGridMode == {GalleryView, FeaturedView}

High == "High"
Low == "Low"

\* Number.MAX_SAFE_INTEGER is 2^53 - 1; TLC's integers are 32 bits wide, so
\* the model uses the largest of them.  Only "larger than the length of any
\* list" matters to slice().
MAX_SAFE_INTEGER == 2147483647

(***************************************************************************)
(* JavaScript helpers.                                                     *)
(***************************************************************************)
Range(s) == {s[i] : i \in DOMAIN s}

Min(x, y) == IF x < y THEN x ELSE y
Max(x, y) == IF x > y THEN x ELSE y

\* Array.prototype.slice(0, end): a negative end counts from the end of the
\* array.
Slice0(s, end) ==
  LET e == IF end < 0 THEN Max(Len(s) + end, 0) ELSE Min(end, Len(s))
  IN  SubSeq(s, 1, e)

\* attendeeStates is a JavaScript object keyed by attendee id: its keys are
\* iterated in insertion order, a deleted key that is added again goes to the
\* end.  It is modelled as the sequence of its values in key order.
Keys(as) == [i \in DOMAIN as |-> as[i].attendeeId]
KeySet(as) == {as[i].attendeeId : i \in DOMAIN as}
Entry(as, id) == as[CHOOSE i \in DOMAIN as : as[i].attendeeId = id]

\* new DefaultModality(sourceId).hasModality(DefaultModality.MODALITY_CONTENT):
\* the id has exactly two '#'-separated components and the second is "content"
isContentShare(sourceId) ==
  Len(sourceId) = 2 /\ sourceId[2] = MODALITY_CONTENT

(***************************************************************************)
(* The initial state.                                                      *)
(***************************************************************************)
threshold == 8

initialGridState ==
  [mode |-> GalleryView, isZoomed |-> FALSE, threshold |-> threshold]

initialAttendeeStates == <<>>

initialVideoSourceState ==
  [cameraSources |-> <<>>,
   activeSpeakersWithCameraSource |-> <<>>,
   contentShareId |-> null,
   hasLocalVideo |-> FALSE,
   hasLocalContentSharing |-> FALSE]

(***************************************************************************)
(* calculateVideoSourcesToBeRendered                                       *)
(***************************************************************************)
Tile(attendeeId, type) == [attendeeId |-> attendeeId, type |-> type]

\* First, add content share: every key of attendeeStates that is a content
\* share with videoEnabled, in key order.
contentShareTiles(as) ==
  LET sel == SelectSeq(as, LAMBDA e : isContentShare(e.attendeeId) /\ e.videoEnabled)
  IN  [i \in DOMAIN sel |-> Tile(sel[i].attendeeId, "contentShare")]

\* maximumNumberOfActiveSpeakers without the slot of the local video
maximumNumberOfActiveSpeakers_NoLocal(gs, vss) ==
  IF gs.mode = FeaturedView
    THEN 4 - (IF vss.contentShareId # null THEN 1 ELSE 0)
    ELSE IF gs.mode = GalleryView THEN 1 ELSE 0

\* maximumNumberOfActiveSpeakers without either deduction in FeaturedView
maximumNumberOfActiveSpeakers_NoDeduction(gs, vss) ==
  IF gs.mode = FeaturedView THEN 4
    ELSE IF gs.mode = GalleryView THEN 1 ELSE 0

maximumNumberOfActiveSpeakers(gs, vss) ==
  IF gs.mode = FeaturedView
    THEN 4 - (IF vss.hasLocalVideo THEN 1 ELSE 0)
           - (IF vss.contentShareId # null THEN 1 ELSE 0)
    ELSE IF gs.mode = GalleryView THEN 1 ELSE 0

\* Second, add active speakers (only when activeSpeakersWithCameraSource is
\* not empty).
activeSpeakersToBeRendered(gs, vss) ==
  IF Len(vss.activeSpeakersWithCameraSource) > 0
    THEN Slice0(vss.activeSpeakersWithCameraSource,
                maximumNumberOfActiveSpeakers(gs, vss))
    ELSE <<>>

\* commonSources without the filter on the rendered active speakers
commonSources_Unfiltered(gs, vss) == vss.cameraSources

\* commonSources filtering on every active speaker, rendered or not
commonSources_AllSpeakers(gs, vss) ==
  SelectSeq(vss.cameraSources,
            LAMBDA id : id \notin Range(vss.activeSpeakersWithCameraSource))

commonSources(gs, vss) ==
  IF Len(vss.activeSpeakersWithCameraSource) > 0
    THEN SelectSeq(vss.cameraSources,
                   LAMBDA id : id \notin Range(activeSpeakersToBeRendered(gs, vss)))
    ELSE vss.cameraSources

\* gridSize with the gallery capped at threshold whether zoomed or not
gridSize_AlwaysCapped(gs) ==
  IF gs.mode = FeaturedView THEN 4
  ELSE IF gs.mode = GalleryView THEN gs.threshold ELSE 0

gridSize(gs) ==
  IF gs.mode = FeaturedView THEN 4
  ELSE IF gs.mode = GalleryView
    THEN (IF gs.isZoomed THEN gs.threshold ELSE MAX_SAFE_INTEGER)
    ELSE 0

numberOfAvailableTiles(gs, vss) ==
  gridSize(gs) - (IF vss.hasLocalVideo THEN 1 ELSE 0)
               - (IF vss.contentShareId # null THEN 1 ELSE 0)
               - Len(activeSpeakersToBeRendered(gs, vss))

\* Last, add common video sources.
commonTiles(gs, vss) ==
  LET sel == Slice0(commonSources(gs, vss), numberOfAvailableTiles(gs, vss))
  IN  [i \in DOMAIN sel |-> Tile(sel[i], "common")]

calculateVideoSourcesToBeRendered(gs, vss, as) ==
  LET speakers == activeSpeakersToBeRendered(gs, vss)
  IN  contentShareTiles(as)
        \o [i \in DOMAIN speakers |-> Tile(speakers[i], "activeSpeaker")]
        \o commonTiles(gs, vss)

(***************************************************************************)
(* updateDownlinkPreferences: the sequence of VideoPreference objects, in  *)
(* the order of the add() calls, that is built and handed to               *)
(* priorityBasedPolicy.chooseRemoteVideoSources.                           *)
(***************************************************************************)
VideoPreference(attendeeId, priority, size) ==
  [attendeeId |-> attendeeId, priority |-> priority, targetDisplaySize |-> size]

\* targetDisplaySize with < for <=
targetDisplaySize_Strict(gs, vss, videoSourcesToBeRendered) ==
  LET numberOfTiles ==
        Len(videoSourcesToBeRendered) + (IF vss.hasLocalVideo THEN 1 ELSE 0)
  IN  IF numberOfTiles < gs.threshold THEN High ELSE Low

targetDisplaySize(gs, vss, videoSourcesToBeRendered) ==
  LET numberOfTiles ==
        Len(videoSourcesToBeRendered) + (IF vss.hasLocalVideo THEN 1 ELSE 0)
  IN  IF numberOfTiles <= gs.threshold THEN High ELSE Low

activeSpeakerSize(gs, target) ==
  IF gs.mode = FeaturedView THEN High ELSE target

\* preferenceOf with the active speakers handled like common tiles
preferenceOf_SpeakerAsCommon(gs, videoSource, target) ==
  IF videoSource.type = "contentShare"
    THEN VideoPreference(videoSource.attendeeId, 1, High)
    ELSE VideoPreference(videoSource.attendeeId, 2, target)

preferenceOf(gs, videoSource, target) ==
  IF videoSource.type = "contentShare"
    THEN VideoPreference(videoSource.attendeeId, 1, High)
  ELSE IF videoSource.type = "activeSpeaker"
    THEN VideoPreference(videoSource.attendeeId, 1, activeSpeakerSize(gs, target))
  ELSE VideoPreference(videoSource.attendeeId, 2, target)

updateDownlinkPreferences(gs, vss, as) ==
  LET videoSourcesToBeRendered == calculateVideoSourcesToBeRendered(gs, vss, as)
      target == targetDisplaySize(gs, vss, videoSourcesToBeRendered)
  IN  [i \in DOMAIN videoSourcesToBeRendered |->
         preferenceOf(gs, videoSourcesToBeRendered[i], target)]

(***************************************************************************)
(* The reducer: the values each action stores.                             *)
(***************************************************************************)
AttendeeState(attendeeId, name, videoEnabled) ==
  [attendeeId |-> attendeeId, name |-> name,
   videoEnabled |-> videoEnabled, bandwidthConstrained |-> FALSE]

\* removeLeft without the exemption of the content shares
removeLeft_ContentToo(as, roster) ==
  SelectSeq(as, LAMBDA e : e.attendeeId \in KeySet(roster))

\* removeLeft with the roster test inverted
removeLeft_Inverted(as, roster) ==
  SelectSeq(as, LAMBDA e :
    ~(~isContentShare(e.attendeeId) /\ e.attendeeId \in KeySet(roster)))

\* Remove attendee that left the meeting.
removeLeft(as, roster) ==
  SelectSeq(as, LAMBDA e :
    ~(~isContentShare(e.attendeeId) /\ e.attendeeId \notin KeySet(roster)))

\* Add attendee that joined the meeting: the roster entries are visited in
\* key order; a known attendee gets the name, an unknown one is appended.
RECURSIVE addJoined(_, _)
addJoined(as, roster) ==
  IF roster = <<>> THEN as
  ELSE LET r == Head(roster)
           next == IF r.attendeeId \in KeySet(as)
                     THEN [i \in DOMAIN as |->
                             IF as[i].attendeeId = r.attendeeId
                               THEN [as[i] EXCEPT !.name = r.name]
                               ELSE as[i]]
                     ELSE Append(as, AttendeeState(r.attendeeId, r.name, FALSE))
       IN  addJoined(next, Tail(roster))

\* ensureVideoEnabled setting videoEnabled on every key of attendeeStates
ensureVideoEnabled_All(as, cameraSources) ==
  [i \in DOMAIN as |-> [as[i] EXCEPT !.videoEnabled = TRUE]]

\* Ensure the state of videoEnabled against the current cameraSources.
ensureVideoEnabled(as, cameraSources) ==
  [i \in DOMAIN as |->
     IF as[i].attendeeId \in Range(cameraSources)
       THEN [as[i] EXCEPT !.videoEnabled = TRUE]
       ELSE as[i]]

UpdateAttendeeStatesResult(as, vss, roster) ==
  ensureVideoEnabled(addJoined(removeLeft(as, roster), roster), vss.cameraSources)

\* resetVideoEnabled left out
resetVideoEnabled_Skipped(as) == as

\* Reset the videoEnabled of all attendeeStates.
resetVideoEnabled(as) ==
  [i \in DOMAIN as |-> [as[i] EXCEPT !.videoEnabled = FALSE]]

\* Remove content share from attendeeStates, if content share is not in
\* video sources.
removeContentShare(as, videoSourceIds) ==
  SelectSeq(as, LAMBDA e :
    ~(isContentShare(e.attendeeId) /\ e.attendeeId \notin Range(videoSourceIds)))

\* Update the videoEnabled according to video sources.
RECURSIVE enableVideoSources(_, _)
enableVideoSources(as, videoSourceIds) ==
  IF videoSourceIds = <<>> THEN as
  ELSE LET id == Head(videoSourceIds)
           next == IF id \in KeySet(as)
                     THEN [i \in DOMAIN as |->
                             IF as[i].attendeeId = id
                               THEN [as[i] EXCEPT !.videoEnabled = TRUE]
                               ELSE as[i]]
                     ELSE Append(as,
                            AttendeeState(id,
                              IF isContentShare(id) THEN "content share" ELSE "",
                              TRUE))
       IN  enableVideoSources(next, Tail(videoSourceIds))

\* Populate the cameraSources based on the order of attendeeStates.
\* populateCameraSources leaving out the paused attendees
populateCameraSources_SkipPaused(as) ==
  Keys(SelectSeq(as, LAMBDA e :
    e.videoEnabled /\ ~isContentShare(e.attendeeId) /\ ~e.bandwidthConstrained))

populateCameraSources(as) ==
  Keys(SelectSeq(as, LAMBDA e : e.videoEnabled /\ ~isContentShare(e.attendeeId)))

UpdateVideoSourcesAttendees(as, videoSourceIds) ==
  enableVideoSources(
    removeContentShare(resetVideoEnabled(as), videoSourceIds), videoSourceIds)

\* UpdateVideoSourcesResult populating cameraSources from attendeeStates as
\* they were before the update
UpdateVideoSourcesResult_Stale(vss, as, videoSourceIds) ==
  [vss EXCEPT !.cameraSources = populateCameraSources(as)]

UpdateVideoSourcesResult(vss, as, videoSourceIds) ==
  [vss EXCEPT !.cameraSources =
     populateCameraSources(UpdateVideoSourcesAttendees(as, videoSourceIds))]

\* activeSpeakersFilter testing cameraSources only
activeSpeakersFilter_CameraOnly(as, vss, activeSpeakers) ==
  SelectSeq(activeSpeakers, LAMBDA id : id \in Range(vss.cameraSources))

\* activeSpeakers filtered to the ids with videoEnabled and a camera source.
activeSpeakersFilter(as, vss, activeSpeakers) ==
  SelectSeq(activeSpeakers, LAMBDA id :
    /\ id \in KeySet(as)
    /\ Entry(as, id).videoEnabled
    /\ id \in Range(vss.cameraSources))

UpdateActiveSpeakersResult(vss, as, activeSpeakers) ==
  [vss EXCEPT !.activeSpeakersWithCameraSource =
     activeSpeakersFilter(as, vss, activeSpeakers)]

UpdateLocalSourceStateResult(vss, payload) ==
  [vss EXCEPT !.hasLocalVideo = payload.isVideoEnabled,
              !.hasLocalContentSharing = payload.isLocalUserSharing,
              !.contentShareId = payload.sharingAttendeeId]

UpdateLocalSourceStateAttendees(as, payload) ==
  IF payload.localAttendeeId # null /\ payload.localAttendeeId \in KeySet(as)
    THEN [i \in DOMAIN as |->
            IF as[i].attendeeId = payload.localAttendeeId
              THEN [as[i] EXCEPT !.videoEnabled = payload.isVideoEnabled]
              ELSE as[i]]
    ELSE as

setBandwidthConstrained(as, attendeeId, value) ==
  [i \in DOMAIN as |->
     IF as[i].attendeeId = attendeeId
       THEN [as[i] EXCEPT !.bandwidthConstrained = value]
       ELSE as[i]]

(***************************************************************************)
(* The payloads the actions are dispatched with.                           *)
(***************************************************************************)
\* the camera ids Names[i] .. Names[j], in that order (empty when j < i)
Interval(i, j) == [k \in 1..(j - i + 1) |-> CameraId(i + k - 1)]

\* nobody, everybody (a, b, ..., in this order), and the three attendees
\* b, c, d, whose list makes attendeeStates leave the alphabetical order
CameraLists == {<<>>, Interval(1, MaxAttendees), Interval(2, 4)}

\* the content share of the meeting, a#content
ContentIds == {ContentId(1)}

ContentLists == {<<>>, <<ContentId(1)>>}

\* payload.videoSources, as the list of videoSource.attendee.attendeeId
VideoSourceLists == {l \o c : l \in CameraLists, c \in ContentLists}

\* payload.roster, as the list of its entries in key order; name is optional
\* in RosterAttendeeType and '' stands for its absence: the roster knows the
\* name of attendee b only
RosterOf(l) ==
  [k \in DOMAIN l |->
     [attendeeId |-> l[k], name |-> IF l[k] = CameraId(2) THEN l[k][1] ELSE ""]]

Rosters == {RosterOf(l) : l \in CameraLists}

\* payload.activeSpeakers: c, d, ... most recent first
SpeakerLists == {Interval(3, 2 + n) : n \in 0..MaxSpeakers}

\* The local attendee is b; isLocalUserSharing comes with the id of the
\* content share.
LocalSourcePayloads ==
  {p \in [isVideoEnabled : BOOLEAN,
          localAttendeeId : {CameraId(2)},
          isLocalUserSharing : BOOLEAN,
          sharingAttendeeId : {null} \cup ContentIds] :
     p.isLocalUserSharing => p.sharingAttendeeId # null}

\* payload.attendeeId of PauseVideoTile / UnpauseVideoTile: the tile of b
TileIds == {CameraId(2)}

(***************************************************************************)
(* The state machine.  priorityBasedPolicy holds the argument of the last  *)
(* chooseRemoteVideoSources call, and whether there was one; pushed holds  *)
(* the mode and the videoSourcesToBeRendered of the                        *)
(* updateDownlinkPreferences call that made it; thrown holds the message   *)
(* of the Error the last reducer call threw, NoError when it returned.     *)
(***************************************************************************)
NoError == ""
IncorrectType == "Incorrect type in VideoGridStateProvider"

Init ==
  /\ gridState = initialGridState
  /\ attendeeStates = initialAttendeeStates
  /\ videoSourceState = initialVideoSourceState
  /\ priorityBasedPolicy = [called |-> FALSE, videoPreferences |-> <<>>]
  /\ pushed = [mode |-> GalleryView, videoSourcesToBeRendered |-> <<>>]
  /\ thrown = NoError
  /\ twin = [gridState |-> initialGridState,
             attendeeStates |-> initialAttendeeStates,
             videoSourceState |-> initialVideoSourceState,
             priorityBasedPolicy |-> [called |-> FALSE, videoPreferences |-> <<>>]]
  \* useState([]), useRef(messages), useState(''), before any event
  /\ messages = <<>>
  /\ messagesRef = <<>>
  /\ unreadChannels = <<>>
  /\ unreadChannelsListRef = <<>>
  /\ meetingInfo = ""
  /\ awaited = <<>>
  /\ effectPending = FALSE
  /\ received = {}

\* an action is dispatched: no earlier reducer call has thrown, which nothing
\* in the module catches
dispatched == thrown = NoError

\* the reducer call reaches a return statement
returns == thrown' = NoError

\* priorityBasedPolicy.chooseRemoteVideoSources(videoPreferences.build())
chooseRemoteVideoSources(gs, vss, as) ==
  /\ priorityBasedPolicy' =
       [called |-> TRUE, videoPreferences |-> updateDownlinkPreferences(gs, vss, as)]
  /\ pushed' = [mode |-> gs.mode,
                videoSourcesToBeRendered |->
                  calculateVideoSourcesToBeRendered(gs, vss, as)]

\* The constant initialState: a record of references to the three objects,
\* whose contents are whatever the actions have written to them so far.
initialState ==
  [gridState |-> gridState,
   attendeeStates |-> attendeeStates,
   videoSourceState |-> videoSourceState]

\* return initialState
ResetVideoGridState ==
  /\ dispatched
  /\ gridState' = initialState.gridState
  /\ attendeeStates' = initialState.attendeeStates
  /\ videoSourceState' = initialState.videoSourceState
  /\ UNCHANGED <<priorityBasedPolicy, pushed>>
  /\ returns
  /\ UNCHANGED chatVars

UpdateAttendeeStates(roster) ==
  /\ dispatched
  /\ attendeeStates' = UpdateAttendeeStatesResult(attendeeStates, videoSourceState, roster)
  /\ UNCHANGED <<gridState, videoSourceState, priorityBasedPolicy, pushed>>
  /\ returns
  /\ UNCHANGED chatVars

UpdateVideoSources(videoSourceIds) ==
  /\ dispatched
  /\ attendeeStates' = UpdateVideoSourcesAttendees(attendeeStates, videoSourceIds)
  /\ videoSourceState' =
       UpdateVideoSourcesResult(videoSourceState, attendeeStates, videoSourceIds)
  /\ UNCHANGED gridState
  /\ chooseRemoteVideoSources(gridState', videoSourceState', attendeeStates')
  /\ returns
  /\ UNCHANGED chatVars

UpdateActiveSpeakers(activeSpeakers) ==
  /\ dispatched
  /\ videoSourceState' =
       UpdateActiveSpeakersResult(videoSourceState, attendeeStates, activeSpeakers)
  /\ UNCHANGED <<gridState, attendeeStates>>
  /\ chooseRemoteVideoSources(gridState', videoSourceState', attendeeStates')
  /\ returns
  /\ UNCHANGED chatVars

UpdateLocalSourceState(payload) ==
  /\ dispatched
  /\ videoSourceState' = UpdateLocalSourceStateResult(videoSourceState, payload)
  /\ attendeeStates' = UpdateLocalSourceStateAttendees(attendeeStates, payload)
  /\ UNCHANGED gridState
  /\ chooseRemoteVideoSources(gridState', videoSourceState', attendeeStates')
  /\ returns
  /\ UNCHANGED chatVars

UpdateGridState(videoGridMode) ==
  /\ dispatched
  /\ gridState' = [gridState EXCEPT !.mode = videoGridMode]
  /\ UNCHANGED <<attendeeStates, videoSourceState>>
  /\ chooseRemoteVideoSources(gridState', videoSourceState', attendeeStates')
  /\ returns
  /\ UNCHANGED chatVars

\* PauseVideoTile followed by updateDownlinkPreferences
PauseVideoTile_Pushes(attendeeId) ==
  /\ dispatched
  /\ attendeeId \in KeySet(attendeeStates)
  /\ attendeeStates' = setBandwidthConstrained(attendeeStates, attendeeId, TRUE)
  /\ UNCHANGED <<gridState, videoSourceState>>
  /\ chooseRemoteVideoSources(gridState', videoSourceState', attendeeStates')
  /\ returns
  /\ UNCHANGED chatVars

\* attendeeStates[attendeeId].bandwidthConstrained = true throws a TypeError
\* for an id that is no key of attendeeStates: no state is returned
PauseVideoTile(attendeeId) ==
  /\ dispatched
  /\ attendeeId \in KeySet(attendeeStates)
  /\ attendeeStates' = setBandwidthConstrained(attendeeStates, attendeeId, TRUE)
  /\ UNCHANGED <<gridState, videoSourceState, priorityBasedPolicy, pushed>>
  /\ returns
  /\ UNCHANGED chatVars

UnpauseVideoTile(attendeeId) ==
  /\ dispatched
  /\ attendeeId \in KeySet(attendeeStates)
  /\ attendeeStates' = setBandwidthConstrained(attendeeStates, attendeeId, FALSE)
  /\ UNCHANGED <<gridState, videoSourceState, priorityBasedPolicy, pushed>>
  /\ returns
  /\ UNCHANGED chatVars

ZoomInGuard(gs, vss) ==
  Len(vss.cameraSources) + (IF vss.hasLocalVideo THEN 1 ELSE 0) > gs.threshold

\* ZoomIn without the test of numberOfTiles against threshold
ZoomIn_Unguarded ==
  /\ dispatched
  /\ UNCHANGED <<attendeeStates, videoSourceState>>
  /\ gridState' = [gridState EXCEPT !.isZoomed = TRUE]
  /\ chooseRemoteVideoSources(gridState', videoSourceState', attendeeStates')
  /\ returns
  /\ UNCHANGED chatVars

ZoomIn ==
  /\ dispatched
  /\ UNCHANGED <<attendeeStates, videoSourceState>>
  /\ IF ZoomInGuard(gridState, videoSourceState)
       THEN /\ gridState' = [gridState EXCEPT !.isZoomed = TRUE]
            /\ chooseRemoteVideoSources(gridState', videoSourceState', attendeeStates')
       ELSE UNCHANGED <<gridState, priorityBasedPolicy, pushed>>
  /\ returns
  /\ UNCHANGED chatVars

\* ZoomOut without the updateDownlinkPreferences call
ZoomOut_NoUpdate ==
  /\ dispatched
  /\ UNCHANGED <<attendeeStates, videoSourceState, priorityBasedPolicy, pushed>>
  /\ gridState' = [gridState EXCEPT !.isZoomed = FALSE]
  /\ returns
  /\ UNCHANGED chatVars

ZoomOut ==
  /\ dispatched
  /\ UNCHANGED <<attendeeStates, videoSourceState>>
  /\ IF gridState.isZoomed
       THEN /\ gridState' = [gridState EXCEPT !.isZoomed = FALSE]
            /\ chooseRemoteVideoSources(gridState', videoSourceState', attendeeStates')
       ELSE UNCHANGED <<gridState, priorityBasedPolicy, pushed>>
  /\ returns
  /\ UNCHANGED chatVars

\* twin is a second provider (its gridState, attendeeStates and
\* videoSourceState objects and its allocator); the actions above are those
\* of the first, which leave the second alone.
Next ==
  \/ ResetVideoGridState /\ UNCHANGED twin
  \/ \E roster \in Rosters : UpdateAttendeeStates(roster) /\ UNCHANGED twin
  \/ \E videoSourceIds \in VideoSourceLists :
       UpdateVideoSources(videoSourceIds) /\ UNCHANGED twin
  \/ \E activeSpeakers \in SpeakerLists :
       UpdateActiveSpeakers(activeSpeakers) /\ UNCHANGED twin
  \/ \E payload \in LocalSourcePayloads :
       UpdateLocalSourceState(payload) /\ UNCHANGED twin
  \/ \E videoGridMode \in VideoGridMode :
       UpdateGridState(videoGridMode) /\ UNCHANGED twin
  \/ \E attendeeId \in TileIds : PauseVideoTile(attendeeId) /\ UNCHANGED twin
  \/ \E attendeeId \in TileIds : UnpauseVideoTile(attendeeId) /\ UNCHANGED twin
  \/ ZoomIn /\ UNCHANGED twin
  \/ ZoomOut /\ UNCHANGED twin

Spec == Init /\ [][Next]_vars

(***************************************************************************)
(* The default branch of the switch.  The type Action admits the ten       *)
(* values of the enum only, so a type-checked caller never reaches it:     *)
(* Spec is the reducer under the dispatches that type-check, SpecAnyType   *)
(* the reducer under a `type` of any value.                                *)
(***************************************************************************)
\* enum VideoGridAction: ResetVideoGridState = 0, ..., ZoomOut = 9
VideoGridAction == 0 .. 9

\* the values of `type` that are dispatched
AnyTypes == -1 .. 10

\* default: return state
Default_Ignored(type) ==
  /\ type \notin VideoGridAction
  /\ returns
  /\ UNCHANGED chatVars
  /\ UNCHANGED <<gridState, attendeeStates, videoSourceState,
                 priorityBasedPolicy, pushed>>

\* default: throw new Error('Incorrect type in VideoGridStateProvider')
Default(type) ==
  /\ type \notin VideoGridAction
  /\ thrown' = IncorrectType
  /\ UNCHANGED chatVars
  /\ UNCHANGED <<gridState, attendeeStates, videoSourceState,
                 priorityBasedPolicy, pushed>>

NextAnyType ==
  \/ Next
  \/ \E type \in AnyTypes : dispatched /\ Default(type) /\ UNCHANGED twin

SpecAnyType == Init /\ [][NextAnyType]_vars

(***************************************************************************)
(* Two providers side by side.  The reducer applied to the second          *)
(* provider: the same cases, on the objects and the allocator of twin.     *)
(***************************************************************************)
\* updateDownlinkPreferences(gridState, videoSourceState, attendeeStates) on
\* the objects of st
TwinPushed(st) ==
  [st EXCEPT !.priorityBasedPolicy =
     [called |-> TRUE,
      videoPreferences |->
        updateDownlinkPreferences(st.gridState, st.videoSourceState,
                                  st.attendeeStates)]]

TwinResetVideoGridState == UNCHANGED twin

TwinUpdateAttendeeStates(roster) ==
  twin' = [twin EXCEPT !.attendeeStates =
             UpdateAttendeeStatesResult(twin.attendeeStates,
                                        twin.videoSourceState, roster)]

TwinUpdateVideoSources(videoSourceIds) ==
  twin' = TwinPushed(
            [twin EXCEPT
               !.attendeeStates =
                 UpdateVideoSourcesAttendees(twin.attendeeStates, videoSourceIds),
               !.videoSourceState =
                 UpdateVideoSourcesResult(twin.videoSourceState,
                                          twin.attendeeStates, videoSourceIds)])

TwinUpdateActiveSpeakers(activeSpeakers) ==
  twin' = TwinPushed(
            [twin EXCEPT
               !.videoSourceState =
                 UpdateActiveSpeakersResult(twin.videoSourceState,
                                            twin.attendeeStates, activeSpeakers)])

TwinUpdateLocalSourceState(payload) ==
  twin' = TwinPushed(
            [twin EXCEPT
               !.videoSourceState =
                 UpdateLocalSourceStateResult(twin.videoSourceState, payload),
               !.attendeeStates =
                 UpdateLocalSourceStateAttendees(twin.attendeeStates, payload)])

TwinUpdateGridState(videoGridMode) ==
  twin' = TwinPushed([twin EXCEPT !.gridState.mode = videoGridMode])

TwinPauseVideoTile(attendeeId) ==
  /\ attendeeId \in KeySet(twin.attendeeStates)
  /\ twin' = [twin EXCEPT !.attendeeStates =
                setBandwidthConstrained(twin.attendeeStates, attendeeId, TRUE)]

TwinUnpauseVideoTile(attendeeId) ==
  /\ attendeeId \in KeySet(twin.attendeeStates)
  /\ twin' = [twin EXCEPT !.attendeeStates =
                setBandwidthConstrained(twin.attendeeStates, attendeeId, FALSE)]

TwinZoomIn ==
  IF ZoomInGuard(twin.gridState, twin.videoSourceState)
    THEN twin' = TwinPushed([twin EXCEPT !.gridState.isZoomed = TRUE])
    ELSE UNCHANGED twin

TwinZoomOut ==
  IF twin.gridState.isZoomed
    THEN twin' = TwinPushed([twin EXCEPT !.gridState.isZoomed = FALSE])
    ELSE UNCHANGED twin

\* the first provider is dispatched no action
Idle ==
  UNCHANGED <<gridState, attendeeStates, videoSourceState, priorityBasedPolicy,
              pushed, thrown, chatVars>>

\* Every action that is not about bandwidthConstrained is dispatched to both
\* providers with the same payload; PauseVideoTile and UnpauseVideoTile are
\* dispatched to the second provider alone, at any moment, so that the
\* bandwidthConstrained flags of the two differ in every way they can (tiles
\* paused on the first provider alone give the mirrored pairs).
NextTwin ==
  \/ ResetVideoGridState /\ TwinResetVideoGridState
  \/ \E roster \in Rosters :
       UpdateAttendeeStates(roster) /\ TwinUpdateAttendeeStates(roster)
  \/ \E videoSourceIds \in VideoSourceLists :
       UpdateVideoSources(videoSourceIds) /\ TwinUpdateVideoSources(videoSourceIds)
  \/ \E activeSpeakers \in SpeakerLists :
       UpdateActiveSpeakers(activeSpeakers) /\ TwinUpdateActiveSpeakers(activeSpeakers)
  \/ \E payload \in LocalSourcePayloads :
       UpdateLocalSourceState(payload) /\ TwinUpdateLocalSourceState(payload)
  \/ \E videoGridMode \in VideoGridMode :
       UpdateGridState(videoGridMode) /\ TwinUpdateGridState(videoGridMode)
  \/ ZoomIn /\ TwinZoomIn
  \/ ZoomOut /\ TwinZoomOut
  \/ \E attendeeId \in TileIds : Idle /\ TwinPauseVideoTile(attendeeId)
  \/ \E attendeeId \in TileIds : Idle /\ TwinUnpauseVideoTile(attendeeId)

SpecTwin == Init /\ [][NextTwin]_vars

(***************************************************************************)
(* MessagingProvider of the chat application: the channel-message case of  *)
(* messagesProcessor, processChannelMessage and the effect that copies the *)
(* state into the refs after a render.                                     *)
(*                                                                         *)
(* messages and unreadChannels are the React state, messagesRef and        *)
(* unreadChannelsListRef the `current` of the refs.  awaited holds the     *)
(* records of the processChannelMessage calls suspended at their `await`;  *)
(* effectPending says that a setter has been called and the effect of the  *)
(* render it causes has not run yet.  received is history: the MessageIds  *)
(* of the PERSISTENT records handed to processChannelMessage while absent  *)
(* from messages.  The active channel does not change.                     *)
(***************************************************************************)
MessageIds == 1 .. MaxMessages

\* activeChannelRef.current.ChannelArn and the ARN of another channel
ActiveChannelArn == "channel/active"
OtherChannelArn == "channel/other"

PERSISTENT == "PERSISTENT"
NON_PERSISTENT == "NON_PERSISTENT"

\* JSON.parse(message.payload) of a channel message event; isMeetingInfo
\* stands for a Metadata with isMeetingInfo set and a Sender other than the
\* member.
Records ==
  [MessageId : MessageIds,
   ChannelArn : {ActiveChannelArn, OtherChannelArn},
   Persistence : {PERSISTENT, NON_PERSISTENT},
   Content : {"content"},
   isMeetingInfo : BOOLEAN]

MessageIdsOf(list) == {list[i].MessageId : i \in DOMAIN list}

\* messagesProcessor, case CREATE_CHANNEL_MESSAGE / REDACT / UPDATE / DELETE.
\* The call of processChannelMessage runs up to its await; the rest of it is
\* a microtask, which runs before the next event is delivered.
messagesProcessor(record) ==
  /\ awaited = <<>>
  /\ UNCHANGED <<messages, messagesRef, unreadChannelsListRef>>
  /\ IF record.isMeetingInfo
       THEN /\ meetingInfo' = record.Content
            /\ effectPending' = TRUE
            /\ UNCHANGED <<unreadChannels, awaited, received>>
       ELSE IF ActiveChannelArn = record.ChannelArn
         THEN /\ awaited' = Append(awaited, record)
              /\ received' =
                   IF /\ record.Persistence = PERSISTENT
                      /\ record.MessageId \notin MessageIdsOf(messages)
                     THEN received \cup {record.MessageId}
                     ELSE received
              /\ UNCHANGED <<unreadChannels, meetingInfo, effectPending>>
         ELSE IF record.ChannelArn \in Range(unreadChannelsListRef)
           THEN UNCHANGED <<unreadChannels, meetingInfo, awaited, effectPending,
                            received>>
           ELSE /\ unreadChannels' =
                     Append(unreadChannelsListRef, record.ChannelArn)
                /\ effectPending' = TRUE
                /\ UNCHANGED <<meetingInfo, awaited, received>>
  /\ UNCHANGED gridVars

\* messagesRef.current.forEach(...): self[i] = newMessage writes into the
\* array the ref points to
replaceDuplicates(list, newMessage) ==
  [i \in DOMAIN list |->
     IF list[i].MessageId = newMessage.MessageId THEN newMessage ELSE list[i]]

isDuplicate(list, newMessage) == newMessage.MessageId \in MessageIdsOf(list)

\* newMessages of processChannelMessage
newMessages(list, newMessage) ==
  IF ~isDuplicate(list, newMessage) /\ newMessage.Persistence = PERSISTENT
    THEN Append(replaceDuplicates(list, newMessage), newMessage)
    ELSE replaceDuplicates(list, newMessage)

\* processChannelMessage after its await: reads messagesRef.current, calls
\* setMessages
processChannelMessage ==
  /\ awaited # <<>>
  /\ messagesRef' = replaceDuplicates(messagesRef, Head(awaited))
  /\ messages' = newMessages(messagesRef, Head(awaited))
  /\ awaited' = Tail(awaited)
  /\ effectPending' = TRUE
  /\ UNCHANGED <<unreadChannels, unreadChannelsListRef, meetingInfo, received>>
  /\ UNCHANGED gridVars

\* useEffect(() => { messagesRef.current = messages; ... }) without
\* dependencies: runs once the render that a setter caused is committed
syncRefs ==
  /\ effectPending
  /\ awaited = <<>>
  /\ messagesRef' = messages
  /\ unreadChannelsListRef' = unreadChannels
  /\ effectPending' = FALSE
  /\ UNCHANGED <<messages, unreadChannels, meetingInfo, awaited, received>>
  /\ UNCHANGED gridVars

\* Events are delivered in any order and at any moment relative to the
\* effect: both are tasks of the event loop.
NextChat ==
  \/ \E record \in Records : messagesProcessor(record)
  \/ processChannelMessage
  \/ syncRefs

SpecChat == Init /\ [][NextChat]_vars

(***************************************************************************)
(* Roster updates.                                                         *)
(***************************************************************************)
\* C1: for every state and every roster R, after UpdateAttendeeStates(R)
\* every key of R is a key of attendeeStates, and every former key that is
\* neither a key of R nor a content-share id is a key no longer.
C1_RosterUpdateKeys ==
  \A roster \in Rosters :
    LET after == UpdateAttendeeStatesResult(attendeeStates, videoSourceState, roster)
    IN  /\ KeySet(roster) \subseteq KeySet(after)
        /\ \A id \in KeySet(attendeeStates) :
             (id \notin KeySet(roster) /\ ~isContentShare(id))
               => id \notin KeySet(after)

\* A state in which one roster removes a camera attendee while the content
\* share stays, and another roster adds an attendee.
C1_Witness ==
  /\ \E roster \in Rosters :
       LET after == UpdateAttendeeStatesResult(attendeeStates, videoSourceState, roster)
       IN  /\ \E id \in KeySet(attendeeStates) :
                ~isContentShare(id) /\ id \notin KeySet(after)
           /\ \E id \in KeySet(attendeeStates) :
                isContentShare(id) /\ id \in KeySet(after)
  /\ \E roster \in Rosters :
       KeySet(roster) \ KeySet(attendeeStates) # {}

(***************************************************************************)
(* Reset.                                                                  *)
(***************************************************************************)
\* C2: after any sequence of actions, what ResetVideoGridState returns is
\* the documented default state: attendeeStates empty, GalleryView, not
\* zoomed, threshold 8, cameraSources and activeSpeakersWithCameraSource
\* empty, contentShareId null, hasLocalVideo and hasLocalContentSharing false.
C2_ResetYieldsDefault ==
  /\ initialState.attendeeStates = <<>>
  /\ initialState.gridState.mode = GalleryView
  /\ initialState.gridState.isZoomed = FALSE
  /\ initialState.gridState.threshold = 8
  /\ initialState.videoSourceState.cameraSources = <<>>
  /\ initialState.videoSourceState.activeSpeakersWithCameraSource = <<>>
  /\ initialState.videoSourceState.contentShareId = null
  /\ initialState.videoSourceState.hasLocalVideo = FALSE
  /\ initialState.videoSourceState.hasLocalContentSharing = FALSE

(***************************************************************************)
(* Capacity of the grid.                                                   *)
(***************************************************************************)
selected ==
  calculateVideoSourcesToBeRendered(gridState, videoSourceState, attendeeStates)

\* C3: in FeaturedView at most 4 tiles are selected (content share, active
\* speakers and common tiles together, local video not counted).
C3_FeaturedAtMostFour ==
  gridState.mode = FeaturedView => Len(selected) <= 4

\* C4: in zoomed GalleryView at most threshold tiles are selected (local
\* video not counted).
C4_ZoomedAtMostThreshold ==
  (gridState.mode = GalleryView /\ gridState.isZoomed)
    => Len(selected) <= gridState.threshold

\* C5: in GalleryView without zoom every id of cameraSources is selected, as
\* an activeSpeaker tile or as a common tile.
C5_GalleryDropsNoCamera ==
  (gridState.mode = GalleryView /\ ~gridState.isZoomed)
    => \A id \in Range(videoSourceState.cameraSources) :
         \E i \in DOMAIN selected :
           /\ selected[i].attendeeId = id
           /\ selected[i].type \in {"activeSpeaker", "common"}

\* GalleryView without zoom, more camera sources than threshold, several
\* active speakers of which one is rendered.
C5_Witness ==
  /\ gridState.mode = GalleryView /\ ~gridState.isZoomed
  /\ Len(videoSourceState.cameraSources) > gridState.threshold
  /\ Len(videoSourceState.activeSpeakersWithCameraSource) > 1
  /\ videoSourceState.hasLocalVideo
  /\ videoSourceState.contentShareId # null

(***************************************************************************)
(* UpdateVideoSources twice.                                               *)
(***************************************************************************)
\* C6: for every state and source list S, UpdateVideoSources(S) dispatched
\* twice in a row leaves, after the second dispatch, the cameraSources of the
\* first, and pushes the preference set of the first.
C6_UpdateVideoSourcesIdempotent ==
  \A videoSourceIds \in VideoSourceLists :
    LET as1 == UpdateVideoSourcesAttendees(attendeeStates, videoSourceIds)
        vss1 == UpdateVideoSourcesResult(videoSourceState, attendeeStates, videoSourceIds)
        as2 == UpdateVideoSourcesAttendees(as1, videoSourceIds)
        vss2 == UpdateVideoSourcesResult(vss1, as1, videoSourceIds)
    IN  /\ vss2.cameraSources = vss1.cameraSources
        /\ updateDownlinkPreferences(gridState, vss2, as2)
             = updateDownlinkPreferences(gridState, vss1, as1)

\* A state in which a source list changes cameraSources, drops the content
\* share, adds attendees behind the known ones and leads to a non-empty
\* preference set.
C6_Witness ==
  \E videoSourceIds \in VideoSourceLists :
    LET as1 == UpdateVideoSourcesAttendees(attendeeStates, videoSourceIds)
        vss1 == UpdateVideoSourcesResult(videoSourceState, attendeeStates, videoSourceIds)
    IN  /\ vss1.cameraSources # videoSourceState.cameraSources
        /\ videoSourceState.cameraSources # <<>>
        /\ vss1.cameraSources # videoSourceIds
        /\ Len(as1) > Len(attendeeStates)
        /\ \E id \in KeySet(attendeeStates) : isContentShare(id) /\ id \notin KeySet(as1)
        /\ updateDownlinkPreferences(gridState, vss1, as1) # <<>>

(***************************************************************************)
(* Scenario A.                                                             *)
(***************************************************************************)
id_a == CameraId(1)
id_b == CameraId(2)
id_c == CameraId(3)
id_d == CameraId(4)
id_e == CameraId(5)
id_f == CameraId(6)
id_g == CameraId(7)
id_h == CameraId(8)
id_i == CameraId(9)
id_j == CameraId(10)

downlinkPreferences ==
  updateDownlinkPreferences(gridState, videoSourceState, attendeeStates)

\* GalleryView, zoom not engaged, threshold 8, no local video, no content
\* share, cameraSources = [a, ..., j], activeSpeakersWithCameraSource = [c]
ScenarioA ==
  /\ gridState = [mode |-> GalleryView, isZoomed |-> FALSE, threshold |-> 8]
  /\ ~videoSourceState.hasLocalVideo
  /\ videoSourceState.contentShareId = null
  /\ \A id \in KeySet(attendeeStates) : ~isContentShare(id)
  /\ videoSourceState.cameraSources = <<id_a, id_b, id_c, id_d, id_e, id_f, id_g, id_h, id_i, id_j>>
  /\ videoSourceState.activeSpeakersWithCameraSource = <<id_c>>

CommonTilesOf(ids) == [k \in DOMAIN ids |-> Tile(ids[k], "common")]

\* C7 as stated: in scenario A the selection is (c, activeSpeaker) followed
\* by the common tiles a, b, d, e, f, g, h, 8 tiles in total, i and j are
\* dropped, and every preference has target size High.
C7_ScenarioA_AsStated ==
  ScenarioA =>
    /\ selected = <<Tile(id_c, "activeSpeaker")>> \o CommonTilesOf(<<id_a, id_b, id_d, id_e, id_f, id_g, id_h>>)
    /\ \A k \in DOMAIN downlinkPreferences :
         downlinkPreferences[k].targetDisplaySize = High

\* C7 as amended: in scenario A the selection is (c, activeSpeaker) followed
\* by the common tiles a, b, d, e, f, g, h, i, j, 10 tiles in total, no id is
\* dropped, and every preference has target size Low.
C7_ScenarioA_Amended ==
  ScenarioA =>
    /\ selected = <<Tile(id_c, "activeSpeaker")>>
                    \o CommonTilesOf(<<id_a, id_b, id_d, id_e, id_f, id_g, id_h, id_i, id_j>>)
    /\ Len(downlinkPreferences) = 10
    /\ \A k \in DOMAIN downlinkPreferences :
         downlinkPreferences[k].targetDisplaySize = Low

C7_Witness == ScenarioA

(***************************************************************************)
(* The downlink preferences.                                               *)
(***************************************************************************)
\* C8: in every preference set pushed while the mode is FeaturedView, the
\* preference of every activeSpeaker tile has priority 1 and target size
\* High.
C8_FeaturedSpeakersHigh ==
  (priorityBasedPolicy.called /\ pushed.mode = FeaturedView)
    => /\ Len(priorityBasedPolicy.videoPreferences)
            = Len(pushed.videoSourcesToBeRendered)
       /\ \A k \in DOMAIN pushed.videoSourcesToBeRendered :
            pushed.videoSourcesToBeRendered[k].type = "activeSpeaker"
              => /\ priorityBasedPolicy.videoPreferences[k].attendeeId
                      = pushed.videoSourcesToBeRendered[k].attendeeId
                 /\ priorityBasedPolicy.videoPreferences[k].priority = 1
                 /\ priorityBasedPolicy.videoPreferences[k].targetDisplaySize = High

\* A set pushed in FeaturedView with a content share, two active speakers
\* and common tiles.
C8_Witness ==
  /\ priorityBasedPolicy.called
  /\ pushed.mode = FeaturedView
  /\ \E k \in DOMAIN pushed.videoSourcesToBeRendered :
       pushed.videoSourcesToBeRendered[k].type = "contentShare"
  /\ \E k \in DOMAIN pushed.videoSourcesToBeRendered :
       /\ pushed.videoSourcesToBeRendered[k].type = "activeSpeaker"
       /\ k + 1 \in DOMAIN pushed.videoSourcesToBeRendered
       /\ pushed.videoSourcesToBeRendered[k + 1].type = "activeSpeaker"
  /\ \E k \in DOMAIN pushed.videoSourcesToBeRendered :
       pushed.videoSourcesToBeRendered[k].type = "common"

\* the mapping of the claim, written out
ReferenceTarget ==
  IF Len(selected) + (IF videoSourceState.hasLocalVideo THEN 1 ELSE 0)
       > gridState.threshold
    THEN Low ELSE High

ReferencePreference(tile) ==
  CASE tile.type = "contentShare" ->
         [attendeeId |-> tile.attendeeId, priority |-> 1, targetDisplaySize |-> High]
    [] tile.type = "activeSpeaker" ->
         [attendeeId |-> tile.attendeeId, priority |-> 1,
          targetDisplaySize |->
            IF gridState.mode = FeaturedView THEN High ELSE ReferenceTarget]
    [] tile.type = "common" ->
         [attendeeId |-> tile.attendeeId, priority |-> 2,
          targetDisplaySize |-> ReferenceTarget]

\* C9: the preference set built by updateDownlinkPreferences is the
\* reference mapping over the selected tiles, one preference per tile:
\* target Low iff selected tiles + (1 if local video) > threshold; content
\* share (1, High); active speaker (1, High in FeaturedView, else target);
\* common (2, target).
C9_PreferencesAreReference ==
  /\ Len(downlinkPreferences) = Len(selected)
  /\ \A k \in DOMAIN selected :
       downlinkPreferences[k] = ReferencePreference(selected[k])

\* Zoomed gallery with exactly threshold tiles counted (High at the limit),
\* among them a content share, an active speaker and common tiles.
C9_WitnessAtThreshold ==
  /\ gridState.mode = GalleryView
  /\ Len(selected) + (IF videoSourceState.hasLocalVideo THEN 1 ELSE 0)
       = gridState.threshold
  /\ \E k \in DOMAIN selected : selected[k].type = "contentShare"
  /\ \E k \in DOMAIN selected : selected[k].type = "activeSpeaker"
  /\ \E k \in DOMAIN selected : selected[k].type = "common"

(***************************************************************************)
(* The preference set held by the allocator.                               *)
(***************************************************************************)
\* C10: once a preference set has been pushed, the set held by the allocator
\* (the argument of the last chooseRemoteVideoSources call) is the set
\* computed from the current state.
C10_AllocatorIsCurrent ==
  priorityBasedPolicy.called
    => priorityBasedPolicy.videoPreferences = downlinkPreferences

\* The allocator holds a non-empty set, and since the last
\* UpdateVideoSources a roster update has removed an attendee whose camera
\* source is still listed, and a tile was paused: actions that push nothing.
C10_Witness ==
  /\ priorityBasedPolicy.called
  /\ priorityBasedPolicy.videoPreferences # <<>>
  /\ \E id \in Range(videoSourceState.cameraSources) : id \notin KeySet(attendeeStates)
  /\ \E k \in DOMAIN attendeeStates : attendeeStates[k].bandwidthConstrained
  /\ gridState.isZoomed
  /\ gridState.mode = GalleryView

(***************************************************************************)
(* An action type outside the enum.                                        *)
(***************************************************************************)
\* C11: in every state, dispatching an action whose type is none of the ten
\* VideoGridAction values has an outcome, and its only outcome is the Error
\* 'Incorrect type in VideoGridStateProvider' being thrown with gridState,
\* attendeeStates, videoSourceState and the allocator's preference set left
\* as they were: it is not ignored, returns no state and pushes nothing.
C11_IncorrectTypeThrows ==
  \A type \in AnyTypes \ VideoGridAction :
    /\ ENABLED Default(type)
    /\ ~ ENABLED (/\ Default(type)
                  /\ ~ (/\ thrown' = IncorrectType
                        /\ UNCHANGED <<gridState, attendeeStates, videoSourceState,
                                       priorityBasedPolicy, pushed>>))

\* The reducer threw on an incorrect type in FeaturedView, with attendees
\* known and a non-empty preference set held by the allocator.
C11_Witness ==
  /\ thrown = IncorrectType
  /\ gridState.mode = FeaturedView
  /\ attendeeStates # <<>>
  /\ priorityBasedPolicy.called
  /\ priorityBasedPolicy.videoPreferences # <<>>

(***************************************************************************)
(* The selection algorithm.                                                *)
(***************************************************************************)
\* the first n entries of s (all of s when it has fewer)
First(s, n) == [k \in 1 .. (IF n < Len(s) THEN n ELSE Len(s)) |-> s[k]]

TilesOf(ids, type) == [k \in DOMAIN ids |-> Tile(ids[k], type)]

\* the selection as the claim words it
ReferenceSelection(gs, vss, as) ==
  LET local == IF vss.hasLocalVideo THEN 1 ELSE 0
      content == IF vss.contentShareId # null THEN 1 ELSE 0
      shares == SelectSeq(Keys(as), LAMBDA id :
                  isContentShare(id) /\ Entry(as, id).videoEnabled)
      budget == IF gs.mode = GalleryView THEN 1 ELSE 4 - local - content
      speakers == First(vss.activeSpeakersWithCameraSource, budget)
      rest == SelectSeq(vss.cameraSources, LAMBDA id : id \notin Range(speakers))
      common == IF gs.mode = GalleryView /\ ~gs.isZoomed
                  THEN rest
                  ELSE First(rest,
                         (IF gs.mode = GalleryView THEN gs.threshold ELSE 4)
                           - local - content - Len(speakers))
  IN  TilesOf(shares, "contentShare") \o TilesOf(speakers, "activeSpeaker")
        \o TilesOf(common, "common")

\* scenario A with zoom engaged
ScenarioB ==
  /\ gridState = [mode |-> GalleryView, isZoomed |-> TRUE, threshold |-> 8]
  /\ ~videoSourceState.hasLocalVideo
  /\ videoSourceState.contentShareId = null
  /\ \A id \in KeySet(attendeeStates) : ~isContentShare(id)
  /\ videoSourceState.cameraSources = <<id_a, id_b, id_c, id_d, id_e, id_f, id_g, id_h, id_i, id_j>>
  /\ videoSourceState.activeSpeakersWithCameraSource = <<id_c>>

\* FeaturedView, local video, a content share, three active speakers (c, d
\* and e for x, y and z, a#content for cs#content)
ScenarioC ==
  /\ gridState.mode = FeaturedView
  /\ videoSourceState.hasLocalVideo
  /\ videoSourceState.contentShareId = ContentId(1)
  /\ ContentId(1) \in KeySet(attendeeStates)
  /\ Entry(attendeeStates, ContentId(1)).videoEnabled
  /\ videoSourceState.activeSpeakersWithCameraSource = <<id_c, id_d, id_e>>

\* C12: in every state calculateVideoSourcesToBeRendered returns exactly
\* (1) the content-share ids of attendeeStates with videoEnabled, typed
\* contentShare, then (2) the first `budget` entries of
\* activeSpeakersWithCameraSource, typed activeSpeaker (budget 1 in
\* GalleryView, 4 - local - content share in FeaturedView), then (3) the first
\* capacity - local - content share - active speakers entries of
\* cameraSources without the emitted speakers, typed common (capacity
\* unbounded in GalleryView without zoom, threshold with zoom, 4 in
\* FeaturedView).  In scenario B that is c and the 7 common tiles a, b, d, e,
\* f, g, h (c and 3 common tiles with threshold 4), in scenario C the content
\* share, c and d, and no common tile.
C12_SelectionIsReference ==
  /\ selected = ReferenceSelection(gridState, videoSourceState, attendeeStates)
  /\ ScenarioB =>
       /\ selected = <<Tile(id_c, "activeSpeaker")>>
                       \o CommonTilesOf(<<id_a, id_b, id_d, id_e, id_f, id_g, id_h>>)
       /\ calculateVideoSourcesToBeRendered(
            [gridState EXCEPT !.threshold = 4], videoSourceState, attendeeStates)
            = <<Tile(id_c, "activeSpeaker")>> \o CommonTilesOf(<<id_a, id_b, id_d>>)
  /\ ScenarioC =>
       selected = <<Tile(ContentId(1), "contentShare"),
                    Tile(id_c, "activeSpeaker"), Tile(id_d, "activeSpeaker")>>

\* Scenario C with camera sources left over: all three steps act, the
\* speakers are cut from three to two and the common tiles to none.
C12_Witness ==
  /\ ScenarioC
  /\ Len(videoSourceState.cameraSources) > 3

\* scenario B is reached as well
C12_WitnessB == ScenarioB

(***************************************************************************)
(* The derived lists against attendeeStates.                               *)
(***************************************************************************)
\* every id of cameraSources and of activeSpeakersWithCameraSource is a key
\* of attendeeStates with videoEnabled
ListsAreEnabledKeys(vss, as) ==
  \A id \in Range(vss.cameraSources) \cup Range(vss.activeSpeakersWithCameraSource) :
    id \in KeySet(as) /\ Entry(as, id).videoEnabled

\* C13: for every state, source list S and speaker list L, in the state
\* right after UpdateVideoSources(S) and in the state right after
\* UpdateActiveSpeakers(L) every id of cameraSources and every id of
\* activeSpeakersWithCameraSource is a key of attendeeStates whose
\* videoEnabled is true.
C13_ListsAreEnabledKeys ==
  /\ \A videoSourceIds \in VideoSourceLists :
       ListsAreEnabledKeys(
         UpdateVideoSourcesResult(videoSourceState, attendeeStates, videoSourceIds),
         UpdateVideoSourcesAttendees(attendeeStates, videoSourceIds))
  /\ \A activeSpeakers \in SpeakerLists :
       ListsAreEnabledKeys(
         UpdateActiveSpeakersResult(videoSourceState, attendeeStates, activeSpeakers),
         attendeeStates)

(***************************************************************************)
(* UpdateVideoSources.                                                     *)
(***************************************************************************)
\* the place of id among the keys of as
KeyIndex(as, id) == CHOOSE i \in DOMAIN as : as[i].attendeeId = id

\* C14: for every state and source list S, after UpdateVideoSources(S) an
\* attendee has videoEnabled true iff its id occurs in S; every id of S is a
\* key of attendeeStates; no content-share id absent from S is a key; and
\* cameraSources holds exactly the non-content-share ids with videoEnabled
\* true, each once, in the iteration order of attendeeStates.
C14_UpdateVideoSourcesPost ==
  [](
    \A videoSourceIds \in VideoSourceLists :
      \A as1 \in {UpdateVideoSourcesAttendees(attendeeStates, videoSourceIds)} :
      \A cs1 \in {UpdateVideoSourcesResult(videoSourceState, attendeeStates,
                                            videoSourceIds).cameraSources} :
        /\ \A k \in DOMAIN as1 :
             as1[k].videoEnabled <=> as1[k].attendeeId \in Range(videoSourceIds)
        /\ Range(videoSourceIds) \subseteq KeySet(as1)
        /\ \A id \in KeySet(as1) :
             isContentShare(id) => id \in Range(videoSourceIds)
        /\ Range(cs1) = {as1[k].attendeeId : k \in {n \in DOMAIN as1 :
                           ~isContentShare(as1[n].attendeeId) /\ as1[n].videoEnabled}}
        /\ \A i \in DOMAIN cs1 :
             i > 1 => KeyIndex(as1, cs1[i - 1]) < KeyIndex(as1, cs1[i]))

\* A state in which one source list disables an enabled attendee and drops
\* the content share, and another appends unknown attendees and yields
\* cameraSources in an order that is not the order of the list.
C14_Witness ==
  /\ \E videoSourceIds \in VideoSourceLists :
       LET as1 == UpdateVideoSourcesAttendees(attendeeStates, videoSourceIds)
       IN  /\ \E k \in DOMAIN attendeeStates :
                /\ attendeeStates[k].videoEnabled
                /\ ~isContentShare(attendeeStates[k].attendeeId)
                /\ attendeeStates[k].attendeeId \in KeySet(as1)
                /\ ~Entry(as1, attendeeStates[k].attendeeId).videoEnabled
           /\ \E id \in KeySet(attendeeStates) :
                isContentShare(id) /\ id \notin KeySet(as1)
  /\ \E videoSourceIds \in VideoSourceLists :
       LET as1 == UpdateVideoSourcesAttendees(attendeeStates, videoSourceIds)
           cs1 == UpdateVideoSourcesResult(videoSourceState, attendeeStates,
                                           videoSourceIds).cameraSources
       IN  /\ Len(as1) > Len(attendeeStates)
           /\ attendeeStates # <<>>
           /\ cs1 # SelectSeq(videoSourceIds, LAMBDA id : ~isContentShare(id))

(***************************************************************************)
(* UpdateActiveSpeakers.                                                   *)
(***************************************************************************)
\* the place of the first occurrence of id in l
IndexOf(l, id) == CHOOSE k \in DOMAIN l : l[k] = id /\ \A m \in 1 .. (k - 1) : l[m] # id

\* s is a subsequence of l made of first occurrences: its entries come from
\* increasing places of l
IsSubsequence(s, l) ==
  /\ Range(s) \subseteq Range(l)
  /\ \A i, j \in DOMAIN s : i < j => IndexOf(l, s[i]) < IndexOf(l, s[j])

\* C15: for every state and id list L, after UpdateActiveSpeakers(L)
\* activeSpeakersWithCameraSource is the subsequence of L made of exactly the
\* ids that are in cameraSources and have an attendeeStates entry with
\* videoEnabled true; the other ids, those unknown to attendeeStates
\* included, are dropped.
C15_ActiveSpeakersFiltered ==
  \A activeSpeakers \in SpeakerLists :
    LET after == UpdateActiveSpeakersResult(videoSourceState, attendeeStates,
                                            activeSpeakers)
        kept == {k \in DOMAIN activeSpeakers :
                   /\ activeSpeakers[k] \in Range(videoSourceState.cameraSources)
                   /\ \E e \in Range(attendeeStates) :
                        e.attendeeId = activeSpeakers[k] /\ e.videoEnabled}
    IN  /\ IsSubsequence(after.activeSpeakersWithCameraSource, activeSpeakers)
        /\ Len(after.activeSpeakersWithCameraSource) = Cardinality(kept)
        /\ Range(after.activeSpeakersWithCameraSource)
             = {activeSpeakers[k] : k \in kept}

\* A state and a list of which one id is kept and one is dropped for being
\* no key of attendeeStates although cameraSources lists it; the update
\* changes activeSpeakersWithCameraSource.
C15_Witness ==
  \E activeSpeakers \in SpeakerLists :
    LET after == UpdateActiveSpeakersResult(videoSourceState, attendeeStates,
                                            activeSpeakers)
    IN  /\ after.activeSpeakersWithCameraSource # <<>>
        /\ \E id \in Range(activeSpeakers) :
             id \notin KeySet(attendeeStates)
               /\ id \in Range(videoSourceState.cameraSources)
        /\ after.activeSpeakersWithCameraSource # videoSourceState.activeSpeakersWithCameraSource

(***************************************************************************)
(* Roster update and video-source update in either order.                  *)
(***************************************************************************)
\* the videoEnabled flag of every attendee, by id
EnabledById(as) == {<<as[k].attendeeId, as[k].videoEnabled>> : k \in DOMAIN as}

\* every non-content-share id of the source list is a key of the roster
CoveredBy(roster, videoSourceIds) ==
  \A id \in Range(videoSourceIds) : isContentShare(id) \/ id \in KeySet(roster)

PushesNewSet ==
  priorityBasedPolicy' =
    [called |-> TRUE,
     videoPreferences |->
       updateDownlinkPreferences(gridState', videoSourceState', attendeeStates')]

\* nothing of the state is written and the allocator is not called
NoOp ==
  UNCHANGED <<gridState, attendeeStates, videoSourceState, priorityBasedPolicy, pushed>>

ZoomInEffect ==
  IF Len(videoSourceState.cameraSources)
       + (IF videoSourceState.hasLocalVideo THEN 1 ELSE 0) > gridState.threshold
    THEN /\ gridState' = [gridState EXCEPT !.isZoomed = TRUE]
         /\ UNCHANGED <<attendeeStates, videoSourceState>>
         /\ PushesNewSet
    ELSE NoOp

ZoomOutEffect ==
  IF gridState.isZoomed
    THEN /\ gridState' = [gridState EXCEPT !.isZoomed = FALSE]
         /\ UNCHANGED <<attendeeStates, videoSourceState>>
         /\ PushesNewSet
    ELSE NoOp

\* C17: every ZoomIn step sets isZoomed to true and pushes a preference set
\* when cameraSources.length + (1 if hasLocalVideo) > threshold, and every
\* ZoomOut step sets isZoomed to false and pushes a preference set when
\* isZoomed is true; when its guard is false the action changes no field of
\* the state and pushes nothing.
C17_ZoomGuardedNoOps ==
  [][(ZoomIn => ZoomInEffect) /\ (ZoomOut => ZoomOutEffect)]_vars

\* A zoomed gallery whose tiles have gone down to threshold or fewer, with an
\* allocator that has been called: ZoomIn is a no-op here, ZoomOut is not.
C17_Witness ==
  /\ gridState.isZoomed
  /\ ~ZoomInGuard(gridState, videoSourceState)
  /\ videoSourceState.cameraSources # <<>>
  /\ priorityBasedPolicy.called

\* the other two cases: ZoomIn acts and ZoomOut is a no-op
C17_WitnessNotZoomed ==
  /\ ~gridState.isZoomed
  /\ ZoomInGuard(gridState, videoSourceState)

(***************************************************************************)
(* Pause and unpause.                                                      *)
(***************************************************************************)
\* the attendee id has bandwidthConstrained = value after the step, every
\* other field of it and every other attendee are as before, in the same
\* key order; gridState, videoSourceState and the allocator are untouched
TileEffect(id, value) ==
  /\ DOMAIN attendeeStates' = DOMAIN attendeeStates
  /\ \A k \in DOMAIN attendeeStates :
       IF attendeeStates[k].attendeeId = id
         THEN /\ attendeeStates'[k].bandwidthConstrained = value
              /\ attendeeStates'[k].attendeeId = attendeeStates[k].attendeeId
              /\ attendeeStates'[k].name = attendeeStates[k].name
              /\ attendeeStates'[k].videoEnabled = attendeeStates[k].videoEnabled
         ELSE attendeeStates'[k] = attendeeStates[k]
  /\ UNCHANGED <<gridState, videoSourceState, priorityBasedPolicy, pushed>>

\* C18: every PauseVideoTile(id) and UnpauseVideoTile(id) step, id a key of
\* attendeeStates, sets the bandwidthConstrained of that attendee to true and
\* to false respectively and leaves unchanged every other field of it, every
\* other attendee, gridState and videoSourceState; neither pushes a
\* preference set to the allocator.
C18_PauseUnpauseFrame ==
  [][\A id \in TileIds :
       /\ PauseVideoTile(id) => TileEffect(id, TRUE)
       /\ UnpauseVideoTile(id) => TileEffect(id, FALSE)]_vars

\* The tile of b is paused while b has a name and a camera source, among
\* other attendees that are not paused.
C18_Witness ==
  /\ \E k \in DOMAIN attendeeStates :
       /\ attendeeStates[k].attendeeId \in TileIds
       /\ attendeeStates[k].bandwidthConstrained
       /\ attendeeStates[k].videoEnabled
       /\ attendeeStates[k].name # ""
  /\ \E k \in DOMAIN attendeeStates : ~attendeeStates[k].bandwidthConstrained
  /\ videoSourceState.cameraSources # <<>>

(***************************************************************************)
(* bandwidthConstrained and the selection.                                 *)
(***************************************************************************)
\* as with every bandwidthConstrained flag cleared
WithoutFlags(as) == [k \in DOMAIN as |-> [as[k] EXCEPT !.bandwidthConstrained = FALSE]]

\* the two providers agree on everything except the bandwidthConstrained flags
AgreeButFlags ==
  /\ twin.gridState = gridState
  /\ twin.videoSourceState = videoSourceState
  /\ WithoutFlags(twin.attendeeStates) = WithoutFlags(attendeeStates)

\* C19: two providers that start in the same state, are dispatched the same
\* sequence of actions and differ only in the PauseVideoTile /
\* UnpauseVideoTile actions one of them is dispatched in between agree, at
\* every moment, on everything except bandwidthConstrained flags, and have
\* the same selection sequence and the same preference set, computed and
\* held by the allocator.
C19_FlagsDoNotInterfere ==
  /\ AgreeButFlags
  /\ calculateVideoSourcesToBeRendered(twin.gridState, twin.videoSourceState,
                                       twin.attendeeStates) = selected
  /\ updateDownlinkPreferences(twin.gridState, twin.videoSourceState,
                               twin.attendeeStates) = downlinkPreferences
  /\ twin.priorityBasedPolicy = priorityBasedPolicy

\* The flags of the two providers differ for an attendee that is selected in
\* a zoomed gallery, among active-speaker and common tiles.
C19_Witness ==
  /\ twin.attendeeStates # attendeeStates
  /\ gridState.isZoomed
  /\ \E k \in DOMAIN attendeeStates :
       /\ attendeeStates[k].bandwidthConstrained
            # twin.attendeeStates[k].bandwidthConstrained
       /\ \E n \in DOMAIN selected :
            selected[n].attendeeId = attendeeStates[k].attendeeId
  /\ \E n \in DOMAIN selected : selected[n].type = "activeSpeaker"
  /\ priorityBasedPolicy.called

(***************************************************************************)
(* One tile per attendee.                                                  *)
(***************************************************************************)
\* no two entries of s are about the same attendee
OnePerAttendee(s) ==
  \A i, j \in DOMAIN s : s[i].attendeeId = s[j].attendeeId => i = j

\* every UpdateActiveSpeakers payload lists an attendee id at most once
SpeakersListedOnce ==
  \A activeSpeakers \in SpeakerLists :
    \A i, j \in DOMAIN activeSpeakers :
      activeSpeakers[i] = activeSpeakers[j] => i = j

\* C20: in every reachable state (every UpdateActiveSpeakers payload of the
\* model lists an id at most once) no attendee id occurs twice in the
\* selection calculateVideoSourcesToBeRendered returns, and the preference
\* set held by the allocator has no two preferences for one attendee.
C20_OneTilePerAttendee ==
  /\ OnePerAttendee(selected)
  /\ OnePerAttendee(downlinkPreferences)
  /\ OnePerAttendee(priorityBasedPolicy.videoPreferences)

\* A selection with a content share, two active speakers that are camera
\* sources, and common tiles.
C20_Witness ==
  /\ \E n \in DOMAIN selected : selected[n].type = "contentShare"
  /\ \E n \in DOMAIN selected :
       /\ selected[n].type = "activeSpeaker"
       /\ n + 1 \in DOMAIN selected
       /\ selected[n + 1].type = "activeSpeaker"
       /\ selected[n].attendeeId \in Range(videoSourceState.cameraSources)
       /\ selected[n + 1].attendeeId \in Range(videoSourceState.cameraSources)
  /\ \E n \in DOMAIN selected : selected[n].type = "common"
  /\ SpeakersListedOnce
  /\ priorityBasedPolicy.videoPreferences = downlinkPreferences

(***************************************************************************)
(* The remaining-slot count.                                               *)
(***************************************************************************)
\* C21: in every reachable state threshold is 8 and numberOfAvailableTiles,
\* gridSize - (1 if hasLocalVideo) - (1 if contentShareId set) - (number of
\* activeSpeaker tiles), is at least 0: the slice of the common sources is
\* never taken with a negative end.
C21_AvailableTilesNotNegative ==
  /\ gridState.threshold = 8
  /\ numberOfAvailableTiles(gridState, videoSourceState) =
       gridSize(gridState)
         - (IF videoSourceState.hasLocalVideo THEN 1 ELSE 0)
         - (IF videoSourceState.contentShareId # null THEN 1 ELSE 0)
         - Len(SelectSeq(calculateVideoSourcesToBeRendered(
                           gridState, videoSourceState, attendeeStates),
                         LAMBDA tile : tile.type = "activeSpeaker"))
  /\ numberOfAvailableTiles(gridState, videoSourceState) >= 0

\* FeaturedView with local video, a content share and active speakers on
\* every remaining slot: the count is exactly 0 while common sources are left
\* over, and the allocator has been given the set of this state.
C21_Witness ==
  /\ gridState.mode = FeaturedView
  /\ videoSourceState.hasLocalVideo
  /\ videoSourceState.contentShareId # null
  /\ Len(activeSpeakersToBeRendered(gridState, videoSourceState)) = 2
  /\ numberOfAvailableTiles(gridState, videoSourceState) = 0
  /\ Len(commonSources(gridState, videoSourceState)) > 0
  /\ pushed.mode = FeaturedView
  /\ pushed.videoSourcesToBeRendered =
       calculateVideoSourcesToBeRendered(gridState, videoSourceState, attendeeStates)

(***************************************************************************)
(* UpdateAttendeeStates and what the allocator would be asked for.         *)
(***************************************************************************)
\* RosterType is keyed by any attendee id: next to the rosters that are
\* dispatched, one that lists the content share as well.
RostersWithContentShare ==
  Rosters \cup {RosterOf(<<CameraId(2), ContentId(1)>>)}

\* the selection and the preference set computed from a state
Requested(gs, vss, as) ==
  <<calculateVideoSourcesToBeRendered(gs, vss, as),
    updateDownlinkPreferences(gs, vss, as)>>

\* C22: for every reachable state and every roster R, the selection and the
\* preference set computed from the state after UpdateAttendeeStates(R) equal
\* those computed from the state before it.
C22_RosterUpdateKeepsRequest ==
  [](
    \A roster \in RostersWithContentShare :
      Requested(gridState, videoSourceState,
                UpdateAttendeeStatesResult(attendeeStates, videoSourceState, roster))
        = Requested(gridState, videoSourceState, attendeeStates))

\* A roster update that removes rendered attendees: the roster is empty, the
\* attendees of the rendered camera tiles have left attendeeStates, a content
\* share is rendered, and the allocator still holds the set computed from
\* the state.
C22_Witness ==
  /\ KeySet(attendeeStates) = {ContentId(1)}
  /\ Len(videoSourceState.cameraSources) > 0
  /\ Len(videoSourceState.activeSpeakersWithCameraSource) > 0
  /\ Len(contentShareTiles(attendeeStates)) = 1
  /\ priorityBasedPolicy.called
  /\ priorityBasedPolicy.videoPreferences =
       updateDownlinkPreferences(gridState, videoSourceState, attendeeStates)

\* A roster update that adds attendees and re-enables one: b, whose local
\* video was switched off, is enabled again because it is a camera source,
\* and the attendees without a camera have joined.
C22_WitnessJoined ==
  /\ Len(videoSourceState.cameraSources) = 3
  /\ Len(attendeeStates) > MaxAttendees - 1
  /\ ~videoSourceState.hasLocalVideo
  /\ Entry(attendeeStates, CameraId(2)).videoEnabled
  /\ priorityBasedPolicy.called

(***************************************************************************)
(* Chat messages against the stale ref.                                    *)
(***************************************************************************)
\* every event has been processed: no processChannelMessage is suspended
\* and the refs are synchronised
AllProcessed == awaited = <<>> /\ ~effectPending

\* C23: for every interleaving of channel message events for the active
\* channel with the effect that copies messages into messagesRef, every
\* received message with Persistence PERSISTENT and a MessageId not yet in
\* the list is in messages once all events have been processed.
C23_NoMessageLost ==
  AllProcessed => received \subseteq MessageIdsOf(messages)

====
